---- MODULE Spec2Model ----
(***************************************************************************)
(* Crawl orchestration and artifact correlation of CSSFPP:                 *)
(*   src/experiments/crawl/visit_sites_playwright.py                       *)
(*   src/experiments/crawl/rename_by_page_field.py                         *)
(*                                                                         *)
(* Strings are modelled structurally: a hostname is the sequence of its    *)
(* dot-separated labels, a URL is a scheme plus a hostname, a file name is *)
(* either an opaque engine-chosen name or css_dump_<iso>_<label>[_n].json, *)
(* and the ISO stamp is the tuple <<Y, M, D, h, m, s>> printed by strftime.*)
(* A line of the site list is the sequence of its tokens: the maximal runs *)
(* of letters and digits, and every other character on its own.            *)
(* Times are integers in milliseconds since the epoch.                     *)
(***************************************************************************)
EXTENDS Integers, Sequences, FiniteSets, TLC

\* ---------------------------------------------------------------- bounds
MaxFiles == 3          \* files dropped into Downloads in the standalone scenario
MaxArtifacts == 2      \* artifacts the extension writes during the crawl scenario
MaxPasses == 2         \* standalone correlate passes
MaxRuns == 2           \* runs of main() over the same profile directory
MaxLines == 2          \* lines of the site list in the load_sites scenario
RESTART_EVERY == 2     \* restart threshold N (200 in the shipped config)

\* ------------------------------------------------------- program constants
WAIT_AFTER_NAV_MS == 5000
PAGE_COOLDOWN_MS == 250
RENAME_SLACK_MS == 1000
INCREMENTAL_RENAME == TRUE

\* ------------------------------------------------------------- hostnames
\* Label tokens and their lowercase forms.
Lower(l) ==
  CASE l = "X" -> "x"
    [] l = "ORG" -> "org"
    [] OTHER -> l

LowerHost(h) == [i \in 1..Len(h) |-> Lower(h[i])]

\* Labels made of letters only, two or more of them.
AlphaLabels2 == {"com", "org", "net", "cn", "www", "localhost", "ORG", "http", "https"}
\* Labels whose characters all lie in [A-Za-z0-9.-] ("" is the empty label).
ClassLabels == {"x", "y", "z", "X", "p", "1", "83", "360", ""} \cup AlphaLabels2

\* DOMAIN_RE = ^[A-Za-z0-9.-]+\.[A-Za-z]{2,}$ on a hostname given as labels:
\* a last label of two or more letters, preceded by a dot and by a non-empty
\* run of class characters.
DomainReMatch(h) ==
  /\ Len(h) >= 2
  /\ h[Len(h)] \in AlphaLabels2
  /\ \A i \in 1..(Len(h) - 1) : h[i] \in ClassLabels
  /\ (Len(h) > 2 \/ h[1] # "")

\* sld_from_hostname: parts[-2] if there are two or more parts, else the host.
sld_from_hostname(h) ==
  IF Len(h) >= 2 THEN Lower(h[Len(h) - 1])
  ELSE IF Len(h) = 1 THEN Lower(h[1]) ELSE ""

\* ------------------------------------------------------------ ISO stamps
\* Civil date of a day count since 1970-01-01 (proleptic Gregorian).
CivilFromDays(days) ==
  LET z == days + 719468
      era == z \div 146097
      doe == z - era * 146097
      yoe == (doe - doe \div 1460 + doe \div 36524 - doe \div 146096) \div 365
      doy == doe - (365 * yoe + yoe \div 4 - yoe \div 100)
      mp == (5 * doy + 2) \div 153
      d == doy - (153 * mp + 2) \div 5 + 1
      m == IF mp < 10 THEN mp + 3 ELSE mp - 9
      y == yoe + era * 400 + (IF m <= 2 THEN 1 ELSE 0)
  IN <<y, m, d>>

\* strftime("%Y-%m-%dT%H-%M-%SZ") of a UTC second count.
IsoFromSec(sec) ==
  LET ymd == CivilFromDays(sec \div 86400)
      r == sec % 86400
  IN <<ymd[1], ymd[2], ymd[3], r \div 3600, (r % 3600) \div 60, r % 60>>

\* A JSON "timestamp" value: absent, a number in datetime's range, a number
\* outside it (fromtimestamp raises), or a non-numeric value.
TsAbsent == [t |-> "absent", v |-> 0]
TsNum(ms) == [t |-> "num", v |-> ms]
TsHuge == [t |-> "range", v |-> 0]
TsStr == [t |-> "str", v |-> 0]

\* iso_from_epoch_ms(ms, fallback_path): the JSON timestamp when it is numeric
\* and convertible, else the file's mtime.
iso_from_epoch_ms(ts, mtime) ==
  IF ts.t = "num" THEN IsoFromSec(ts.v \div 1000)
  ELSE IsoFromSec(mtime \div 1000)

\* ------------------------------------------------------------ file names
OpaqueName(id) == [kind |-> "opaque", iso |-> <<>>, label |-> "", n |-> id]
\* css_dump_<iso>_<label>.json (n = 0) or css_dump_<iso>_<label>_<n>.json
CanonName(iso, label, n) == [kind |-> "canon", iso |-> iso, label |-> label, n |-> n]

\* ------------------------------------------------------------ file bodies
\* A value of the "page" / "url" key: absent, a URL string, a string without
\* a hostname, or a number.
PvAbsent == [t |-> "absent", host |-> <<>>]
PvUrl(h) == [t |-> "str", host |-> h]
PvNum == [t |-> "num", host |-> <<>>]

Body(shape, page, url, ts) == [shape |-> shape, page |-> page, url |-> url, ts |-> ts]

HostX == <<"x", "com">>
HostY == <<"y", "org">>
HostZ == <<"z", "net">>

BodyX1 == Body("object", PvUrl(HostX), PvAbsent, TsNum(1000))
BodyX2 == Body("object", PvUrl(<<"www", "X", "com">>), PvAbsent, TsNum(1500))
BodyY == Body("object", PvAbsent, PvUrl(<<"y", "ORG">>), TsAbsent)
BodyText == Body("text", PvAbsent, PvAbsent, TsAbsent)
BodyArray == Body("array", PvAbsent, PvAbsent, TsAbsent)
BodyNoPage == Body("object", PvAbsent, PvAbsent, TsNum(1000))
BodyNumPage == Body("object", PvNum, PvAbsent, TsNum(1000))
BodyBadHost == Body("object", PvUrl(<<"localhost">>), PvAbsent, TsHuge)

\* What the engine may drop into Downloads in the standalone scenario.
Bodies == {BodyX1, BodyX2, BodyY, BodyText, BodyArray}

\* ------------------------------------------------------------------ state
VARIABLES
  dir,        \* Downloads: set of files [name, id, body, mtime], names unique
  clock,      \* wall clock, ms
  scanning,   \* a postprocess_rename call is in progress
  files,      \* its snapshot of directory entries, in iteration order
  fi,         \* index of the next entry of files
  renamed,    \* its local counter
  skipped,    \* rename_by_page_field.main: its second counter, files passed over
  since,      \* only_newer_than_epoch, or NoSince
  result,     \* value returned by the last completed call, or NoResult
  raised,     \* the last call ended by an exception
  passLog,    \* history: renames of the current/last call, <<from, to, id>>
  passNo,     \* history: calls started
  startCanon, \* history: a canonical name existed when the call started
  dirty,      \* history: a rename failed or a file arrived during the call
  cleanRun,   \* history: consecutive undisturbed complete unscoped calls
  failedIds,  \* history: files whose rename has raised in some call
  pc,         \* position of main() (or "tool" for the standalone correlator)
  exc,        \* exception propagating out of main, or "none"
  runs,       \* runs of main() started so far
  domains,    \* main: result of load_sites
  idx,        \* main: position of the for loop in domains
  visited,    \* main: in-memory visited set
  visitedLog, \* visited.txt, one domain per line
  failedLog,  \* failed.txt, one <<domain, final url, reason>> per line
  ctx,        \* main: the context object ctx refers to: "none", "open", "closed"
  sessions,   \* browser contexts alive in the engine
  processed,  \* main: processed counter
  page,       \* main: the page object of the visit: "none", "open", "closed"
  pagesOpen,  \* pages alive in the engine
  start_epoch, loaded, final_url, err,  \* main: locals of one visit
  e_https,    \* history: error of the HTTPS attempt of the visit
  e_http,     \* history: error of the HTTP attempt of the visit
  mark,       \* history: lengths of visited.txt and failed.txt when the visit began
  pending,    \* domains whose loaded page has not yet produced its artifact
  attempted,  \* history: domains whose visit began in this run, in order
  opens,      \* history: domains for which new_page was called in this run
  log0,       \* history: visited.txt as it was when the run started
  launches,   \* history: launch_context calls of this run
  closes,     \* history: ctx.close calls of this run
  served,     \* history: visits counted since the last successful launch
  plan,       \* scenario: how many runs and engine writes it has, how it started
  sites       \* sites_main.txt, one line per element

corrVars == <<dir, clock, scanning, files, fi, renamed, skipped, since, result, raised,
              passLog, passNo, startCanon, dirty, cleanRun, failedIds>>

NoSince == -1
NoResult == -1

Exists(d, name) == \E g \in d : g.name = name
FileAt(d, name) == CHOOSE g \in d : g.name = name

\* ------------------------------------------------------- the correlator
\* _try_load_json: None unless the text starts with { or [ and parses.
try_load_json(body) ==
  IF body.shape \in {"object", "array"} THEN body.shape ELSE "none"

Truthy(pv) == pv.t \in {"str", "num"}

\* data.get("page") or data.get("url")
PageUrl(body) == IF Truthy(body.page) THEN body.page ELSE body.url

\* Variant: the existence test is dropped.
uniquify_unchecked(d, target) == target

\* Variant: the suffix search starts at 2.
uniquify_from_two(d, target) ==
  IF ~Exists(d, target) THEN target
  ELSE LET cand(i) == [target EXCEPT !.n = i]
           k == CHOOSE i \in 2..(Cardinality(d) + 2) :
                  /\ ~Exists(d, cand(i))
                  /\ \A j \in 2..(i - 1) : Exists(d, cand(j))
       IN cand(k)

\* _uniquify: the target if free, else the first free <stem>_<i><suffix>, i = 1, 2, ...
uniquify(d, target) ==
  IF ~Exists(d, target) THEN target
  ELSE LET cand(i) == [target EXCEPT !.n = i]
           k == CHOOSE i \in 1..(Cardinality(d) + 1) :
                  /\ ~Exists(d, cand(i))
                  /\ \A j \in 1..(i - 1) : Exists(d, cand(j))
       IN cand(k)

\* Lines 151-172 for one entry f of the snapshot: what the loop body decides.
Decide(d, f) ==
  LET data == try_load_json(f.body)
      pv == PageUrl(f.body)
      host == LowerHost(pv.host)
      base == CanonName(iso_from_epoch_ms(f.body.ts, f.mtime),
                        sld_from_hostname(host), 0)
      target == uniquify(d, base)
  IN IF data = "none" THEN [act |-> "skip", to |-> f.name]
     ELSE IF data = "array" THEN [act |-> "raise", to |-> f.name]
     ELSE IF ~Truthy(pv) THEN [act |-> "skip", to |-> f.name]
     ELSE IF pv.t = "num" THEN [act |-> "raise", to |-> f.name]
     ELSE IF ~DomainReMatch(host) THEN [act |-> "skip", to |-> f.name]
     ELSE IF target = f.name THEN [act |-> "skip", to |-> f.name]
     ELSE [act |-> "rename", to |-> target]

\* Path.rename: the entry moves; a file already at the target is replaced.
RenameIn(d, f, to) ==
  {g \in d : g.name # f.name /\ g.name # to} \cup {[f EXCEPT !.name = to]}

Perms(S) ==
  {s \in [1..Cardinality(S) -> S] : \A i, j \in 1..Cardinality(S) : s[i] = s[j] => i = j}

\* Variant: the snapshot is never filtered.
Eligible_unscoped(d, sinceVal) == {g.name : g \in d}

\* Lines 142-148: snapshot of the directory, filtered by mtime when scoped.
Eligible(d, sinceVal) ==
  {g.name : g \in {h \in d : sinceVal = NoSince \/ h.mtime >= sinceVal}}

PassBegin(sinceVal) ==
  /\ ~scanning
  /\ \E order \in Perms(Eligible(dir, sinceVal)) : files' = order
  /\ scanning' = TRUE
  /\ fi' = 1
  /\ renamed' = 0
  /\ since' = sinceVal
  /\ raised' = FALSE
  /\ passLog' = <<>>
  /\ passNo' = passNo + 1
  /\ startCanon' = (\E g \in dir : g.name.kind = "canon")
  /\ dirty' = FALSE
  /\ cleanRun' = IF sinceVal = NoSince THEN cleanRun ELSE 0
  /\ UNCHANGED <<dir, result, failedIds, skipped>>

\* Variant: the counter is incremented before the rename is tried.
renamed_after_failure_counted(n) == n + 1

\* Lines 174-179: renamed += 1 follows f.rename inside the try, so a rename
\* that raises leaves the counter as it was.
renamed_after_failure(n) == n

\* Lines 150-179, one iteration of the for loop.
PassStep ==
  /\ scanning
  /\ fi <= Len(files)
  /\ LET name == files[fi]
         f == FileAt(dir, name)
         dec == Decide(dir, f)
     IN \/ /\ dec.act = "skip"
           /\ UNCHANGED <<dir, renamed, passLog, dirty, scanning, raised, cleanRun,
                          failedIds>>
           /\ fi' = fi + 1
        \/ /\ dec.act = "rename"
           /\ \E ok \in BOOLEAN :
                IF ok
                THEN /\ dir' = RenameIn(dir, f, dec.to)
                     /\ renamed' = renamed + 1
                     /\ passLog' = Append(passLog, [from |-> name, to |-> dec.to, id |-> f.id])
                     /\ UNCHANGED <<dirty, failedIds>>
                ELSE /\ dirty' = TRUE
                     /\ failedIds' = failedIds \cup {f.id}
                     /\ renamed' = renamed_after_failure(renamed)
                     /\ UNCHANGED <<dir, passLog>>
           /\ fi' = fi + 1
           /\ UNCHANGED <<scanning, raised, cleanRun>>
        \/ /\ dec.act = "raise"
           /\ scanning' = FALSE
           /\ raised' = TRUE
           /\ cleanRun' = 0
           /\ UNCHANGED <<dir, renamed, passLog, dirty, fi, failedIds>>
  /\ UNCHANGED <<clock, files, since, result, passNo, startCanon, skipped>>

\* Line 181: return renamed.
PassEnd ==
  /\ scanning
  /\ fi > Len(files)
  /\ scanning' = FALSE
  /\ result' = renamed
  /\ cleanRun' = IF dirty \/ since # NoSince THEN 0 ELSE cleanRun + 1
  /\ UNCHANGED <<dir, clock, files, fi, renamed, skipped, since, raised, passLog,
                 passNo, startCanon, dirty, failedIds>>

\* The external engine drops a file under a fresh opaque name.
EngineWrite(body, cap) ==
  /\ Cardinality(dir) < cap
  /\ LET id == Cardinality(dir) + 1
     IN dir' = dir \cup {[name |-> OpaqueName(id), id |-> id, body |-> body, mtime |-> clock]}
  /\ dirty' = TRUE
  /\ cleanRun' = 0
  /\ UNCHANGED failedIds

passCtl == <<scanning, files, fi, renamed, skipped, since, result, raised, passLog, passNo,
             startCanon>>
passHist == <<dirty, cleanRun, failedIds>>
ledger == <<visitedLog, failedLog>>
visitLocals == <<start_epoch, loaded, final_url, err, e_https, e_http, mark>>
browser == <<ctx, sessions, page, pagesOpen, pending>>
runHist == <<attempted, opens, log0, launches, closes, served>>
loopVars == <<plan, sites, runs, domains, idx, visited, processed>>
crawlVars == <<pc, exc, loopVars, ledger, browser, visitLocals, runHist>>
vars == <<corrVars, crawlVars>>

\* ------------------------------------------------------------- the crawler
NoDomain == <<>>

\* ---- a line of the site list, as tokens
\* Tokens that consist of digits only.
DigitTokens == {"1", "83", "360"}
Whitespace == {" "}
DQuote == "\""
SQuote == "'"

LowerTokens(s) == [i \in 1..Len(s) |-> Lower(s[i])]

\* str.strip(chars): leading and trailing characters of the set removed.
Strip(s, chars) ==
  IF \A i \in 1..Len(s) : s[i] \in chars THEN <<>>
  ELSE LET lo == CHOOSE i \in 1..Len(s) :
                   s[i] \notin chars /\ \A k \in 1..(i - 1) : s[k] \in chars
           hi == CHOOSE i \in 1..Len(s) :
                   s[i] \notin chars /\ \A k \in (i + 1)..Len(s) : s[k] \in chars
       IN SubSeq(s, lo, hi)

\* The part of s before the first token of the set (all of s if there is none).
Before(s, stops) ==
  IF \A i \in 1..Len(s) : s[i] \notin stops THEN s
  ELSE LET k == CHOOSE i \in 1..Len(s) :
                  s[i] \in stops /\ \A m \in 1..(i - 1) : s[m] \notin stops
       IN SubSeq(s, 1, k - 1)

\* The part of s after the last token of the set (all of s if there is none).
AfterLast(s, stops) ==
  IF \A i \in 1..Len(s) : s[i] \notin stops THEN s
  ELSE LET k == CHOOSE i \in 1..Len(s) :
                  s[i] \in stops /\ \A m \in (i + 1)..Len(s) : s[m] \notin stops
       IN SubSeq(s, k + 1, Len(s))

\* A hostname string as the sequence of its dot-separated labels.
RECURSIVE LabelsFrom(_, _, _, _)
LabelsFrom(t, i, cur, out) ==
  IF i > Len(t) THEN Append(out, cur)
  ELSE IF t[i] = "." THEN LabelsFrom(t, i + 1, "", Append(out, cur))
  ELSE LabelsFrom(t, i + 1, cur \o t[i], out)

Labels(t) == LabelsFrom(t, 1, "", <<>>)

\* s.startswith(("http://", "https://"))
StartsWithScheme(s) ==
  /\ Len(s) >= 4
  /\ s[1] \in {"http", "https"}
  /\ s[2] = ":" /\ s[3] = "/" /\ s[4] = "/"

\* urlparse(s).hostname of such a line, lowercased: the authority up to the
\* first "/", "?" or "#", without its port.
UrlHostname(s) ==
  LowerTokens(Before(Before(SubSeq(s, 5, Len(s)), {"/", "?", "#"}), {":"}))

\* Line 46: raw.strip().strip('"').strip("'")
Unquoted(raw) == Strip(Strip(Strip(raw, Whitespace), {DQuote}), {SQuote})

\* Lines 59-60: the text after the last comma, stripped.
AfterComma(s) ==
  IF \E i \in 1..Len(s) : s[i] = "," THEN Strip(AfterLast(s, {","}), Whitespace)
  ELSE s

HasWhitespace(s) == \E i \in 1..Len(s) : s[i] \in Whitespace

\* Lines 63-64: s.split()[-1], which does not exist when s is blank.
LastWord(s) == AfterLast(Strip(s, Whitespace), Whitespace)

\* Line 67: re.sub(r"^\d+[\.\-:]", "", s)
strip_rank(s) ==
  IF Len(s) >= 2 /\ s[1] \in DigitTokens /\ s[2] \in {".", "-", ":"}
  THEN SubSeq(s, 3, Len(s))
  ELSE s

\* _extract_domain raises IndexError at line 64 when the text left by line 46
\* is blank: it is not empty, it is no URL, it has no comma and split() of it
\* is the empty list.
extract_domain_raises(raw) ==
  LET s == Unquoted(raw)
  IN /\ s # <<>>
     /\ ~StartsWithScheme(s)
     /\ HasWhitespace(AfterComma(s))
     /\ Strip(AfterComma(s), Whitespace) = <<>>

\* _extract_domain: the domain of a line, or NoDomain for None.
extract_domain(raw) ==
  LET s == Unquoted(raw)
      c == AfterComma(s)
      w == IF HasWhitespace(c) THEN LastWord(c) ELSE c
      t == LowerTokens(Strip(strip_rank(w), {"/"}))
  IN IF s = <<>> THEN NoDomain
     ELSE IF StartsWithScheme(s)
     THEN IF UrlHostname(s) # <<>> /\ DomainReMatch(Labels(UrlHostname(s)))
          THEN Labels(UrlHostname(s)) ELSE NoDomain
     ELSE IF t # <<>> /\ DomainReMatch(Labels(t)) THEN Labels(t) ELSE NoDomain

\* ---- lines of a site list
Bare(d) == d
RankCsv(d) == <<"83", ",">> \o d
RankSpace(d) == <<"83", " ">> \o d
RankDotSpace(d) == <<"83", ".", " ">> \o d
HttpsUrl(d) == <<"https", ":", "/", "/">> \o d \o <<"/", "p">>

\* sites_main.txt of the crawl scenarios.
SitesFile ==
  << Bare(<<"x", ".", "com">>),
     RankCsv(<<"y", ".", "org">>),
     HttpsUrl(<<"X", ".", "com">>),
     <<"83">>,
     RankDotSpace(<<"z", ".", "net">>) >>

Range(s) == {s[i] : i \in 1..Len(s)}

RECURSIVE LoadFrom(_, _, _)
LoadFrom(lines, i, out) ==
  IF i > Len(lines) THEN out
  ELSE LET d == extract_domain(lines[i])
       IN IF d # NoDomain /\ d \notin Range(out)
          THEN LoadFrom(lines, i + 1, Append(out, d))
          ELSE LoadFrom(lines, i + 1, out)

\* load_sites, lines 75-81: first occurrences, in order.
load_sites(lines) == LoadFrom(lines, 1, <<>>)

\* load_sites raises when _extract_domain raises for one of the lines.
load_sites_raises(lines) == \E i \in 1..Len(lines) : extract_domain_raises(lines[i])

\* Variant: the resume set also takes the domains of failed.txt.
read_set_with_failed(log) ==
  Range(log) \cup {failedLog[i].domain : i \in 1..Len(failedLog)}

\* _read_set: the set of the non-empty lines of visited.txt.
read_set(log) == Range(log)

NoUrl == [scheme |-> "", host |-> <<>>]
Url(scheme, d) == [scheme |-> scheme, host |-> d]
NoErr == ""
\* str(e) of the exceptions a browser call may raise.
Errs == {"Timeout", "NetError"}
\* random.uniform(0.2, 0.8) and random.uniform(0.0, 0.35), in ms
JitterDwellMs == {500}
JitterCoolMs == {100}

\* Variant: resume by position, skipping as many entries as there are visited domains.
is_visited_by_position(d) == idx <= Cardinality(visited)

\* Variant: no domain is ever skipped.
is_visited_never(d) == FALSE

\* Line 253: if domain in visited: continue
is_visited(d) == d \in visited

\* Variant: the test fires one visit late.
needs_restart_late(p) == p > RESTART_EVERY

\* Variant: the test without its processed > 0 guard.
needs_restart_unguarded(p) == p % RESTART_EVERY = 0

\* Line 257: the restart test.
needs_restart(p) == p > 0 /\ p % RESTART_EVERY = 0

\* Variant: the error of the first attempt is kept.
first_failure_reason(eHttps, eHttp) == eHttps

\* Lines 288-289: the error kept when both attempts failed.
http_failure_reason(eHttps, eHttp) == eHttp

\* Variant: a failed.txt line is written for every visit.
logs_failure_always(l, e) == TRUE
\* Line 319: whether a failed.txt line is written.
logs_failure(l, e) == ~l \/ e # NoErr

\* Line 320: domain \t final_url or '' \t err or 'not_loaded'
failed_line(d, u, e) ==
  [domain |-> d, url |-> u, reason |-> IF e # NoErr THEN e ELSE "not_loaded"]

\* Variant: the file is opened for writing, not appending.
append_line_truncating(log, line) == <<line>>

\* _append_line: open in append mode, write the line.
append_line(log, line) == Append(log, line)

Running ==
  pc \notin {"boot", "done", "fatal", "aborted", "killed", "tool", "sites", "loaded",
             "load_failed", "script"}

FreshLocals ==
  /\ start_epoch' = 0
  /\ loaded' = FALSE
  /\ final_url' = NoUrl
  /\ err' = NoErr
  /\ e_https' = NoErr
  /\ e_http' = NoErr
  /\ mark' = <<0, 0>>

\* The memory of a process that has ended: the locals of main ...
ForgetLocals ==
  /\ FreshLocals
  /\ page' = "none"
  /\ domains' = <<>>
  /\ idx' = 1
  /\ visited' = {}
  /\ processed' = 0

\* ... and those of a postprocess_rename call.
ForgetPass ==
  /\ scanning' = FALSE
  /\ files' = <<>>
  /\ fi' = 1
  /\ renamed' = 0
  /\ skipped' = 0
  /\ since' = NoSince
  /\ result' = NoResult
  /\ raised' = FALSE
  /\ passLog' = <<>>
  /\ startCanon' = FALSE
  /\ dirty' = FALSE
  /\ cleanRun' = 0
  /\ UNCHANGED failedIds

ForgetProcess == ForgetLocals /\ ForgetPass

\* Variant: the browser is launched before the paths are checked.
launches_at_startup_unchecked(pathsOk) == 1

\* Variant: nothing is launched before the loop.
launches_at_startup_lazy(pathsOk) == 0

\* Lines 233-249: launch_context is reached only when no check has raised.
launches_at_startup(pathsOk) == IF pathsOk THEN 1 ELSE 0

\* Lines 225-249: startup checks, load_sites, _read_set, first launch. A
\* missing extension directory, executable or site list raises
\* FileNotFoundError; an exception of load_sites or of the launch leaves main
\* as well.
Startup ==
  /\ pc = "boot"
  /\ \E extOk, braveOk, sitesOk, launchOk \in BOOLEAN :
       LET pathsOk == extOk /\ braveOk /\ sitesOk
           loadOk == ~load_sites_raises(sites)
           n == launches_at_startup(pathsOk /\ loadOk)
       IN /\ launches' = n
          /\ IF n > 0 /\ launchOk
             THEN ctx' = "open" /\ sessions' = sessions + 1
             ELSE UNCHANGED <<ctx, sessions>>
          /\ IF pathsOk /\ loadOk
             THEN /\ domains' = load_sites(sites)
                  /\ visited' = read_set(visitedLog)
                  /\ log0' = visitedLog
             ELSE UNCHANGED <<domains, visited, log0>>
          /\ pc' = IF pathsOk /\ loadOk /\ launchOk THEN "loop" ELSE "fatal"
          /\ exc' = IF ~pathsOk THEN "FileNotFoundError"
                    ELSE IF ~loadOk THEN "IndexError"
                    ELSE IF ~launchOk THEN "LaunchError" ELSE exc
  /\ idx' = 1
  /\ processed' = 0
  /\ UNCHANGED <<plan, sites, runs, ledger, page, pagesOpen, pending, visitLocals,
                 attempted, opens, closes, served, corrVars>>

\* Variant: the replacement is launched with no close of the old context.
restart_body_launching == "restart_launch"

\* Lines 258-263: the restart begins with ctx.close(); launch_context follows.
restart_body == "restart_close"

\* Lines 252-257: the for statement, the skip of visited domains, the restart test.
LoopNext ==
  /\ pc = "loop"
  /\ IF idx > Len(domains)
     THEN pc' = "final_close" /\ UNCHANGED idx
     ELSE IF is_visited(domains[idx])
     THEN pc' = "loop" /\ idx' = idx + 1
     ELSE IF needs_restart(processed)
     THEN pc' = restart_body /\ UNCHANGED idx
     ELSE pc' = "visit" /\ UNCHANGED idx
  /\ UNCHANGED <<exc, plan, sites, runs, domains, visited, processed, ledger, browser,
                 visitLocals, runHist, corrVars>>

\* Pages alive after a context has been closed: its own pages are gone, those
\* of a context that an earlier close left alive may remain.
PagesLeft(n, pages) == IF n <= 1 THEN {0} ELSE 0..pages

\* Lines 259-262: ctx.close() of the old context, errors ignored.
RestartClose ==
  /\ pc = "restart_close"
  /\ \E ok \in BOOLEAN :
       IF ok /\ ctx = "open"
       THEN ctx' = "closed" /\ sessions' = sessions - 1 /\ pending' = {}
            /\ pagesOpen' \in PagesLeft(sessions, pagesOpen)
       ELSE UNCHANGED <<ctx, sessions, pending, pagesOpen>>
  /\ closes' = closes + 1
  /\ pc' = "restart_launch"
  /\ UNCHANGED <<exc, loopVars, ledger, page, visitLocals,
                 attempted, opens, log0, launches, served, corrVars>>

\* Lines 263-264: the replacement launch; its exception is not caught in the loop.
RestartLaunch ==
  /\ pc = "restart_launch"
  /\ launches' = launches + 1
  /\ \E ok \in BOOLEAN :
       IF ok
       THEN /\ ctx' = "open"
            /\ sessions' = sessions + 1
            /\ served' = 0
            /\ clock' = clock + 1000
            /\ pc' = "visit"
            /\ UNCHANGED exc
       ELSE /\ exc' = "LaunchError"
            /\ pc' = "final_close"
            /\ UNCHANGED <<ctx, sessions, served, clock>>
  /\ UNCHANGED <<loopVars, ledger, page, pagesOpen, pending, visitLocals,
                 attempted, opens, log0, closes, dir, passCtl, passHist>>

\* Variant: the outcome is recorded straight after the try body.
after_try_body_recording == "record"

\* Lines 276-299: when the try body of a visit ends, by its last statement or
\* by a caught exception, its finally clause runs.
after_try_body == "rename"

\* Lines 266-274: the locals of a visit.
VisitStart ==
  /\ pc = "visit"
  /\ page' = "none"
  /\ start_epoch' = clock
  /\ loaded' = FALSE
  /\ final_url' = NoUrl
  /\ err' = NoErr
  /\ e_https' = NoErr
  /\ e_http' = NoErr
  /\ mark' = <<Len(visitedLog), Len(failedLog)>>
  /\ attempted' = Append(attempted, domains[idx])
  /\ pc' = "new_page"
  /\ UNCHANGED <<exc, loopVars, ledger, ctx, sessions, pagesOpen, pending,
                 opens, log0, launches, closes, served, corrVars>>

\* Lines 276-277 and 295-297: ctx.new_page(); its exception is the visit's error.
NewPage ==
  /\ pc = "new_page"
  /\ opens' = Append(opens, domains[idx])
  /\ \/ /\ ctx = "open"
        /\ page' = "open"
        /\ pagesOpen' = pagesOpen + 1
        /\ pc' = "https"
        /\ UNCHANGED err
     \/ /\ \E e \in Errs : err' = e
        /\ pc' = after_try_body
        /\ UNCHANGED <<page, pagesOpen>>
  /\ UNCHANGED <<exc, loopVars, ledger, ctx, sessions, pending, start_epoch, loaded,
                 final_url, e_https, e_http, mark, attempted, log0, launches, closes,
                 served, corrVars>>

\* Variant: the dwell is made whatever the navigation gave.
dwells_always(l) == TRUE

\* Line 292: if loaded
dwells(l) == l

\* Lines 278-283: the HTTPS attempt.
GotoHttps ==
  /\ pc = "https"
  /\ \/ /\ loaded' = TRUE
        /\ final_url' = Url("https", domains[idx])
        /\ pending' = pending \cup {domains[idx]}
        /\ pc' = IF dwells(TRUE) THEN "dwell" ELSE after_try_body
        /\ UNCHANGED e_https
     \/ /\ \E e \in Errs : e_https' = e
        /\ pc' = "http"
        /\ UNCHANGED <<loaded, final_url, pending>>
  /\ UNCHANGED <<exc, loopVars, ledger, ctx, sessions, page, pagesOpen, start_epoch,
                 err, e_http, mark, runHist, corrVars>>

\* Lines 284-290: the HTTP attempt after a failed HTTPS attempt.
GotoHttp ==
  /\ pc = "http"
  /\ \/ /\ loaded' = TRUE
        /\ final_url' = Url("http", domains[idx])
        /\ pending' = pending \cup {domains[idx]}
        /\ pc' = IF dwells(TRUE) THEN "dwell" ELSE after_try_body
        /\ UNCHANGED <<err, e_http>>
     \/ /\ \E e \in Errs : e_http' = e /\ err' = http_failure_reason(e_https, e)
        /\ pc' = IF dwells(FALSE) THEN "dwell" ELSE after_try_body
        /\ UNCHANGED <<loaded, final_url, pending>>
  /\ UNCHANGED <<exc, loopVars, ledger, ctx, sessions, page, pagesOpen, start_epoch,
                 e_https, mark, runHist, corrVars>>

\* Lines 292-293: the dwell after a successful navigation.
Dwell ==
  /\ pc = "dwell"
  /\ \E j \in JitterDwellMs : clock' = clock + WAIT_AFTER_NAV_MS + j
  /\ pc' = after_try_body
  /\ UNCHANGED <<exc, loopVars, ledger, browser, visitLocals, runHist, dir, passCtl,
                 passHist>>

\* Lines 299-303: the finally clause calls postprocess_rename, scoped.
FinallyRename ==
  /\ pc = "rename"
  /\ IF INCREMENTAL_RENAME
     THEN PassBegin(start_epoch - RENAME_SLACK_MS) /\ pc' = "renaming" /\ UNCHANGED clock
     ELSE pc' = "renaming" /\ UNCHANGED corrVars
  /\ UNCHANGED <<exc, loopVars, ledger, browser, visitLocals, runHist>>

\* One iteration of the scan, in the crawler or in the standalone tool.
\* An exception of the final call (line 336) is not caught: it ends main.
Scan ==
  /\ pc \in {"renaming", "final_renaming", "tool"}
  /\ PassStep
  /\ pc' = IF pc = "final_renaming" /\ raised' THEN "aborted" ELSE pc
  /\ UNCHANGED <<exc, loopVars, ledger, browser, visitLocals, runHist>>

\* The return of the call; main ends after the final call (lines 336-339).
ScanReturn ==
  /\ pc \in {"renaming", "final_renaming", "tool"}
  /\ PassEnd
  /\ pc' = IF pc = "final_renaming" THEN "done" ELSE pc
  /\ UNCHANGED <<exc, loopVars, ledger, browser, visitLocals, runHist>>

\* Variant: the statements after the finally clause run in any case.
after_finally_always_record(e) == "record"

\* Lines 299-317: after the finally clause an exception in flight goes on to
\* the outer finally; otherwise the outcome is recorded.
after_finally(e) == IF e = "none" THEN "record" ELSE "final_close"

\* Variant: the page is never closed.
closes_page_never(p) == FALSE

\* Line 309: if page is not None
closes_page(p) == p # "none"

\* Lines 304-313: back in the finally clause (an exception of the call is
\* swallowed); page.close(), errors ignored: the page object has been closed
\* as far as the program knows, the engine may still hold the page. Closing a
\* context closes its pages.
ClosePage ==
  /\ pc = "renaming"
  /\ ~scanning
  /\ IF closes_page(page)
     THEN /\ page' = "closed"
          /\ \E ok \in BOOLEAN :
               pagesOpen' = IF ok /\ pagesOpen > 0 THEN pagesOpen - 1 ELSE pagesOpen
     ELSE UNCHANGED <<page, pagesOpen>>
  /\ pc' = after_finally(exc)
  /\ UNCHANGED <<exc, loopVars, ledger, ctx, sessions, pending, visitLocals,
                 runHist, corrVars>>

\* Lines 316-317: visited.add and the visited.txt line.
RecordVisited ==
  /\ pc = "record"
  /\ visited' = visited \cup {domains[idx]}
  /\ visitedLog' = append_line(visitedLog, domains[idx])
  /\ pc' = IF logs_failure(loaded, err) THEN "record_failed" ELSE "count"
  /\ UNCHANGED <<exc, plan, sites, runs, domains, idx, processed, failedLog, browser, visitLocals,
                 runHist, corrVars>>

\* Lines 319-320: the failed.txt line.
RecordFailed ==
  /\ pc = "record_failed"
  /\ failedLog' = append_line(failedLog, failed_line(domains[idx], final_url, err))
  /\ pc' = "count"
  /\ UNCHANGED <<exc, loopVars, visitedLog, browser, visitLocals, runHist, corrVars>>

\* Lines 322-323: processed += 1 and the cooldown; then the next element.
Count ==
  /\ pc = "count"
  /\ processed' = processed + 1
  /\ served' = served + 1
  /\ \E j \in JitterCoolMs : clock' = clock + PAGE_COOLDOWN_MS + j
  /\ idx' = idx + 1
  /\ pc' = "loop"
  /\ UNCHANGED <<exc, plan, sites, runs, domains, visited, ledger, browser, visitLocals,
                 attempted, opens, log0, launches, closes, dir, passCtl, passHist>>

\* Variant: the context is closed only when the loop ended normally.
closes_ctx_on_normal_end(c) == c # "none" /\ exc = "none"

\* Line 328: if ctx is not None
closes_ctx(c) == c # "none"

\* Variant: the final call is made whatever the setting.
runs_final_pass_always(incremental) == TRUE

\* Line 334: if not INCREMENTAL_RENAME
runs_final_pass(incremental) == ~incremental

\* Lines 325-339: the outer finally closes ctx; then the exception goes on, or
\* the final whole-directory call is made when the setting asks for it, or
\* main ends.
FinalClose ==
  /\ pc = "final_close"
  /\ IF closes_ctx(ctx)
     THEN /\ closes' = closes + 1
          /\ \E ok \in BOOLEAN :
               IF ok /\ ctx = "open"
               THEN ctx' = "closed" /\ sessions' = sessions - 1 /\ pending' = {}
                    /\ pagesOpen' \in PagesLeft(sessions, pagesOpen)
               ELSE UNCHANGED <<ctx, sessions, pending, pagesOpen>>
     ELSE UNCHANGED <<closes, ctx, sessions, pending, pagesOpen>>
  /\ ForgetLocals
  /\ IF exc = "none" /\ runs_final_pass(INCREMENTAL_RENAME)
     THEN /\ PassBegin(NoSince)
          /\ pc' = "final_renaming"
     ELSE /\ ForgetPass
          /\ pc' = IF exc # "none" THEN "aborted" ELSE "done"
          /\ UNCHANGED <<dir, passNo>>
  /\ UNCHANGED <<exc, plan, sites, runs, ledger, attempted, opens, log0, launches,
                 served, clock>>

\* KeyboardInterrupt: not an Exception, so no handler of the loop catches it;
\* the finally clauses on its way out run.
Interrupt ==
  /\ exc = "none"
  /\ \/ /\ pc \in {"new_page", "https", "http", "dwell"}
        /\ pc' = "rename"
        /\ UNCHANGED <<scanning>>
     \/ /\ pc \in {"loop", "restart_close", "restart_launch", "visit", "rename",
                   "renaming", "record", "record_failed", "count"}
        /\ pc' = "final_close"
        /\ scanning' = FALSE
  /\ exc' = "KeyboardInterrupt"
  /\ UNCHANGED <<loopVars, ledger, browser, visitLocals, runHist, dir, clock, files,
                 fi, renamed, skipped, since, result, raised, passLog, passNo,
                 startCanon, passHist>>

\* The process dies without running any handler.
Kill ==
  /\ Running
  /\ pc' = "killed"
  /\ exc' = "none"
  /\ ForgetProcess
  /\ ctx' = "none"
  /\ sessions' = 0
  /\ pagesOpen' = 0
  /\ pending' = {}
  /\ attempted' = <<>>
  /\ opens' = <<>>
  /\ launches' = 0
  /\ closes' = 0
  /\ served' = 0
  /\ UNCHANGED <<plan, sites, runs, ledger, log0, dir, clock, passNo>>

\* main() is started again over the same profile directory and site list.
Rerun ==
  /\ pc \in {"done", "fatal", "aborted", "killed"}
  /\ runs < plan.runs
  /\ runs' = runs + 1
  /\ pc' = "boot"
  /\ exc' = "none"
  /\ ForgetProcess
  /\ ctx' = "none"
  /\ sessions' = 0
  /\ pagesOpen' = 0
  /\ pending' = {}
  /\ attempted' = <<>>
  /\ opens' = <<>>
  /\ log0' = visitedLog
  /\ launches' = 0
  /\ closes' = 0
  /\ served' = 0
  /\ passNo' = 0
  /\ UNCHANGED <<plan, sites, ledger, dir, clock>>

\* The extension writes the artifact of a loaded page, at any later moment
\* while the browser lives.
ExtensionWrite ==
  /\ Running
  /\ sessions > 0
  /\ \E d \in pending :
       /\ EngineWrite(Body("object", PvUrl(d), PvAbsent, TsNum(clock)), plan.files)
       /\ pending' = pending \ {d}
  /\ UNCHANGED <<clock, passCtl, pc, exc, loopVars, ledger, ctx, sessions, page,
                 pagesOpen, visitLocals, runHist>>

\* Ledgers a run may find on disk.
FailLine(d) == [domain |-> d, url |-> NoUrl, reason |-> "not_loaded"]
InitLedgers ==
  { <<<<>>, <<>>>>,
    <<<<HostX>>, <<>>>>,
    <<<<HostY>>, <<FailLine(HostX)>>>>,
    <<<<>>, <<FailLine(HostZ)>>>> }

CorrInit ==
  /\ dir = {}
  /\ clock = 0
  /\ scanning = FALSE
  /\ files = <<>>
  /\ fi = 1
  /\ renamed = 0
  /\ skipped = 0
  /\ since = NoSince
  /\ result = NoResult
  /\ raised = FALSE
  /\ passLog = <<>>
  /\ passNo = 0
  /\ startCanon = FALSE
  /\ dirty = FALSE
  /\ cleanRun = 0
  /\ failedIds = {}

CrawlIdle ==
  /\ exc = "none"
  /\ runs = 1
  /\ domains = <<>>
  /\ idx = 1
  /\ visited = {}
  /\ ctx = "none"
  /\ sessions = 0
  /\ processed = 0
  /\ page = "none"
  /\ pagesOpen = 0
  /\ start_epoch = 0
  /\ loaded = FALSE
  /\ final_url = NoUrl
  /\ err = NoErr
  /\ e_https = NoErr
  /\ e_http = NoErr
  /\ mark = <<0, 0>>
  /\ pending = {}
  /\ attempted = <<>>
  /\ opens = <<>>
  /\ launches = 0
  /\ closes = 0
  /\ served = 0

\* Scenarios of the crawl: repeated runs, or one run with artifacts.
\* fresh tells whether the first run found both logs empty.
Scenarios ==
  { [runs |-> r[1], files |-> r[2], passes |-> 0, fresh |-> b] :
      r \in {<<MaxRuns, 0>>, <<1, MaxArtifacts>>}, b \in BOOLEAN }

Init ==
  /\ CorrInit
  /\ CrawlIdle
  /\ pc = "boot"
  /\ plan \in Scenarios
  /\ sites = SitesFile
  /\ \E l \in InitLedgers :
       /\ visitedLog = l[1]
       /\ failedLog = l[2]
       /\ plan.fresh = (l[1] = <<>> /\ l[2] = <<>>)
  /\ log0 = visitedLog

Next ==
  \/ Startup
  \/ LoopNext
  \/ RestartClose
  \/ RestartLaunch
  \/ VisitStart
  \/ NewPage
  \/ GotoHttps
  \/ GotoHttp
  \/ Dwell
  \/ FinallyRename
  \/ Scan
  \/ ScanReturn
  \/ ClosePage
  \/ RecordVisited
  \/ RecordFailed
  \/ Count
  \/ FinalClose
  \/ Interrupt
  \/ Kill
  \/ Rerun
  \/ ExtensionWrite

Spec == Init /\ [][Next]_vars

\* ------------------------------------------- the correlator on its own
\* The engine drops a file while the correlator is used on the directory.
ToolWrite ==
  /\ pc = "tool"
  /\ \E b \in Bodies : EngineWrite(b, plan.files)
  /\ UNCHANGED <<clock, passCtl, crawlVars>>

\* postprocess_rename(downloads_dir) or postprocess_rename(downloads_dir, t),
\* a second after the previous call began.
ToolPass ==
  /\ pc = "tool"
  /\ passNo < plan.passes
  /\ clock' = clock + 1000
  /\ \E s \in {NoSince, clock} : PassBegin(s)
  /\ UNCHANGED crawlVars

\* Scenarios of the tool: many files and one call, or fewer files and
\* several calls.
ToolScenarios ==
  { [runs |-> 0, files |-> MaxFiles, passes |-> 1],
    [runs |-> 0, files |-> MaxFiles - 1, passes |-> MaxPasses] }

InitCorr ==
  /\ CorrInit
  /\ CrawlIdle
  /\ pc = "tool"
  /\ plan \in ToolScenarios
  /\ sites = <<>>
  /\ visitedLog = <<>>
  /\ failedLog = <<>>
  /\ log0 = <<>>

NextCorr ==
  \/ ToolWrite
  \/ ToolPass
  \/ Scan
  \/ ScanReturn

SpecCorr == InitCorr /\ [][NextCorr]_vars

\* ------------------------------------------------- load_sites on its own
DomX == <<"x", ".", "com">>
DomY == <<"y", ".", "org">>
Dom360 == <<"360", ".", "cn">>

\* Lines a site list may hold: the accepted shapes around two domains, and
\* lines of other kinds (upper case, quoted, empty, a quoted blank, a number).
RawLines ==
  { Bare(DomX), RankCsv(DomX), RankSpace(DomX), RankDotSpace(DomX), HttpsUrl(DomX),
    Bare(Dom360), RankCsv(Dom360), RankSpace(Dom360), RankDotSpace(Dom360),
    HttpsUrl(Dom360),
    Bare(DomY),
    <<"X", ".", "com">>,
    <<DQuote>> \o DomX \o <<DQuote>>,
    <<>>,
    <<DQuote, " ", DQuote>>,
    <<"83">> }

\* A line is written to the site list.
SitesWrite ==
  /\ pc = "sites"
  /\ Len(sites) < MaxLines
  /\ \E l \in RawLines : sites' = Append(sites, l)
  /\ UNCHANGED <<corrVars, pc, exc, plan, runs, domains, idx, visited, processed,
                 ledger, browser, visitLocals, runHist>>

\* domains = load_sites(SITES_FILE), line 238.
SitesLoad ==
  /\ pc = "sites"
  /\ IF load_sites_raises(sites)
     THEN pc' = "load_failed" /\ exc' = "IndexError" /\ UNCHANGED domains
     ELSE pc' = "loaded" /\ domains' = load_sites(sites) /\ UNCHANGED exc
  /\ UNCHANGED <<corrVars, plan, sites, runs, idx, visited, processed,
                 ledger, browser, visitLocals, runHist>>

InitSites ==
  /\ CorrInit
  /\ CrawlIdle
  /\ pc = "sites"
  /\ plan = [runs |-> 0, files |-> 0, passes |-> 0]
  /\ sites = <<>>
  /\ visitedLog = <<>>
  /\ failedLog = <<>>
  /\ log0 = <<>>

NextSites ==
  \/ SitesWrite
  \/ SitesLoad

SpecSites == InitSites /\ [][NextSites]_vars

\* ------------------------------------------- rename_by_page_field.py
\* The script's try_load_json, sld, iso_from_timestamp_ms and uniquify have
\* the text of the crawler's _try_load_json, sld_from_hostname,
\* iso_from_epoch_ms and _uniquify; its extract_domain differs.
NoHost == <<>>

\* extract_domain(url): the lower-cased hostname when DOMAIN_RE matches it;
\* None otherwise, also when urlparse raises on a value that is not a string.
script_extract_domain(pv) ==
  IF pv.t = "num" THEN NoHost
  ELSE IF DomainReMatch(LowerHost(pv.host)) THEN LowerHost(pv.host)
  ELSE NoHost

\* sld(hostname)
sld(hostname) ==
  IF Len(hostname) >= 2 THEN Lower(hostname[Len(hostname) - 1])
  ELSE IF Len(hostname) = 1 THEN Lower(hostname[1]) ELSE ""

\* iso_from_timestamp_ms(ts_ms, fallback_path)
iso_from_timestamp_ms(ts, mtime) ==
  IF ts.t = "num" THEN IsoFromSec(ts.v \div 1000)
  ELSE IsoFromSec(mtime \div 1000)

\* Lines 88-112 of main for one entry f: what the loop body decides, and
\* whether it counts the entry as skipped.
ScriptDecide(d, f) ==
  LET data == try_load_json(f.body)
      pv == PageUrl(f.body)
      host == script_extract_domain(pv)
      base == CanonName(iso_from_timestamp_ms(f.body.ts, f.mtime), sld(host), 0)
      target == uniquify(d, base)
  IN IF data = "none" THEN [act |-> "skip", to |-> f.name, counted |-> TRUE]
     ELSE IF data = "array" THEN [act |-> "raise", to |-> f.name, counted |-> FALSE]
     ELSE IF ~Truthy(pv) THEN [act |-> "skip", to |-> f.name, counted |-> TRUE]
     ELSE IF host = NoHost THEN [act |-> "skip", to |-> f.name, counted |-> TRUE]
     ELSE IF target = f.name THEN [act |-> "skip", to |-> f.name, counted |-> FALSE]
     ELSE [act |-> "rename", to |-> target, counted |-> FALSE]

\* What the engine may have dropped into the folder the script is run on.
ScriptBodies == Bodies \cup {BodyNumPage}

ScriptWrite ==
  /\ pc = "script"
  /\ \E b \in ScriptBodies : EngineWrite(b, plan.files)
  /\ UNCHANGED <<clock, passCtl, crawlVars>>

\* Lines 77-86: main is started; it lists the folder and returns at once when
\* the folder has no file.
ScriptBegin ==
  /\ pc = "script"
  /\ ~scanning
  /\ passNo < plan.passes
  /\ passNo' = passNo + 1
  /\ clock' = clock + 1000
  /\ \E order \in Perms({g.name : g \in dir}) : files' = order
  /\ scanning' = (dir # {})
  /\ fi' = 1
  /\ renamed' = 0
  /\ skipped' = 0
  /\ since' = NoSince
  /\ raised' = FALSE
  /\ passLog' = <<>>
  /\ startCanon' = (\E g \in dir : g.name.kind = "canon")
  /\ dirty' = FALSE
  /\ UNCHANGED <<dir, result, cleanRun, failedIds, crawlVars>>

\* Lines 87-121, one iteration of the for loop.
ScriptStep ==
  /\ pc = "script"
  /\ scanning
  /\ fi <= Len(files)
  /\ LET name == files[fi]
         f == FileAt(dir, name)
         dec == ScriptDecide(dir, f)
     IN \/ /\ dec.act = "skip"
           /\ skipped' = IF dec.counted THEN skipped + 1 ELSE skipped
           /\ fi' = fi + 1
           /\ UNCHANGED <<dir, renamed, passLog, dirty, scanning, raised, failedIds>>
        \/ /\ dec.act = "rename"
           /\ \E ok \in BOOLEAN :
                IF ok
                THEN /\ dir' = RenameIn(dir, f, dec.to)
                     /\ renamed' = renamed + 1
                     /\ passLog' = Append(passLog, [from |-> name, to |-> dec.to, id |-> f.id])
                     /\ UNCHANGED <<skipped, dirty, failedIds>>
                ELSE /\ dirty' = TRUE
                     /\ failedIds' = failedIds \cup {f.id}
                     /\ skipped' = skipped + 1
                     /\ UNCHANGED <<dir, renamed, passLog>>
           /\ fi' = fi + 1
           /\ UNCHANGED <<scanning, raised>>
        \/ /\ dec.act = "raise"
           /\ scanning' = FALSE
           /\ raised' = TRUE
           /\ UNCHANGED <<dir, renamed, skipped, passLog, dirty, fi, failedIds>>
  /\ UNCHANGED <<clock, files, since, result, passNo, startCanon, cleanRun, crawlVars>>

\* Line 123: the loop is over, the two counters are printed; main returns None.
ScriptEnd ==
  /\ pc = "script"
  /\ scanning
  /\ fi > Len(files)
  /\ scanning' = FALSE
  /\ UNCHANGED <<dir, clock, files, fi, renamed, skipped, since, result, raised, passLog,
                 passNo, startCanon, passHist, crawlVars>>

InitScript ==
  /\ CorrInit
  /\ CrawlIdle
  /\ pc = "script"
  /\ plan = [runs |-> 0, files |-> MaxFiles - 1, passes |-> MaxPasses]
  /\ sites = <<>>
  /\ visitedLog = <<>>
  /\ failedLog = <<>>
  /\ log0 = <<>>

NextScript ==
  \/ ScriptWrite
  \/ ScriptBegin
  \/ ScriptStep
  \/ ScriptEnd

SpecScript == InitScript /\ [][NextScript]_vars
\* ------------------------------------------------------------------ claims
SiteDomains == load_sites(SitesFile)
InLog0(d) == d \in Range(log0)
NotInLog0(d) == d \notin Range(log0)
\* The work set of the run: the site-list domains absent from visited.txt at its start.
WorkList == SelectSeq(SiteDomains, NotInLog0)

\* C1: no domain that was in visited.txt when the run started is visited in
\* the run, and a run that completes has visited exactly the site-list
\* domains that were absent from visited.txt, whatever failed.txt holds.
C1_WorkSet ==
  /\ \A i \in 1..Len(attempted) : ~InLog0(attempted[i])
  /\ pc = "done" => Range(attempted) = Range(SiteDomains) \ Range(log0)

\* A completed run that skipped the visited domain and revisited the domain
\* that was only in failed.txt.
C1_Witness ==
  /\ pc = "done"
  /\ log0 = <<HostY>>
  /\ failedLog # <<>>
  /\ failedLog[1] = FailLine(HostX)
  /\ HostX \in Range(attempted)
  /\ HostY \notin Range(attempted)

C3_Resume ==
  /\ attempted # <<>> => WorkList # <<>> /\ attempted[1] = WorkList[1]
  /\ pc = "done" => Range(SiteDomains) \subseteq Range(visitedLog)

\* A second run that picked up after an interrupted first run and completed.
C3_Witness ==
  /\ runs = 2
  /\ pc = "done"
  /\ Len(log0) >= 2
  /\ attempted # <<>>

\* A file the correlator takes for an artifact: a JSON object whose page
\* identifier is a URL with a hostname that matches DOMAIN_RE.
IsArtifact(f) ==
  /\ f.body.shape = "object"
  /\ PageUrl(f.body).t = "str"
  /\ DomainReMatch(LowerHost(PageUrl(f.body).host))

\* Its canonical base name css_dump_<ISO>_<label>.json.
BaseOf(f) ==
  CanonName(iso_from_epoch_ms(f.body.ts, f.mtime),
            sld_from_hostname(LowerHost(PageUrl(f.body).host)), 0)

SameBase(a, b) == a.iso = b.iso /\ a.label = b.label

\* C4: a whole-directory pass that follows a complete whole-directory pass,
\* with no file written and no rename failed since the first began, renames
\* nothing and returns 0.
C4_SecondPassRenamesNothing == cleanRun >= 2 => result = 0

\* C5: no step removes a file or changes a file's content or modification
\* time, and the number of files never decreases.
C5_NoFileLost ==
  [][ /\ \A f \in dir : \E g \in dir' :
           g.id = f.id /\ g.body = f.body /\ g.mtime = f.mtime
      /\ Cardinality(dir') >= Cardinality(dir) ]_vars

\* Two artifacts with the same canonical base name, both kept: one under the
\* base name, the other under a suffixed name.
C5_Witness ==
  \E f, g \in dir :
    /\ f.id # g.id
    /\ f.name.kind = "canon" /\ f.name.n = 0
    /\ g.name.kind = "canon" /\ g.name.n >= 1
    /\ SameBase(f.name, g.name)

\* C6: in a pass that began with no canonically named file in the directory,
\* the k-th file renamed to a given base name gets that base name when k = 1
\* and the suffix _(k-1) otherwise.
C6_SuffixOrder ==
  ~startCanon =>
    \A k \in 1..Len(passLog) :
      passLog[k].to =
        [passLog[k].to EXCEPT
           !.n = Cardinality({j \in 1..(k - 1) : SameBase(passLog[j].to, passLog[k].to)})]

\* Three files of one base name renamed in one pass: base, _1, _2.
C6_Witness ==
  /\ ~startCanon
  /\ ~dirty
  /\ Len(passLog) = 3
  /\ passLog[1].to.n = 0 /\ passLog[2].to.n = 1 /\ passLog[3].to.n = 2
  /\ SameBase(passLog[1].to, passLog[2].to)
  /\ SameBase(passLog[2].to, passLog[3].to)
  /\ \E f, g \in dir : f.body # g.body /\ IsArtifact(f) /\ IsArtifact(g)

\* C7: after a complete undisturbed whole-directory pass, an artifact with a
\* numeric timestamp whose canonical name no other file computes is named
\* css_dump_<ISO(t)>_<label>.json, whatever it was named before.
C7_NameFromContent ==
  (cleanRun >= 1 /\ ~scanning) =>
    \A f \in dir :
      ( /\ IsArtifact(f)
        /\ f.body.ts.t = "num"
        /\ \A g \in dir : (g.id # f.id /\ IsArtifact(g)) => BaseOf(g) # BaseOf(f) )
      => f.name = CanonName(IsoFromSec(f.body.ts.v \div 1000),
                            sld_from_hostname(LowerHost(PageUrl(f.body).host)), 0)

VisitPcs ==
  {"visit", "new_page", "https", "http", "dwell", "rename", "renaming", "record",
   "record_failed", "count"}

\* C8 as stated: once N visits have been processed the session has been
\* replaced and the count of the active session is zero, also when the N-th
\* visit was the last of the run.
C8_RestartAfterN ==
  (pc = "done" /\ Len(attempted) = RESTART_EVERY) => (launches = 2 /\ served = 0)

\* C8 amended: the restart is made when the next visit is about to begin.
\* During the visit that follows p processed visits there have been
\* 1 + p div N launches and p div N closes, and the active session has served
\* p mod N visits; a run that ends after n visits has made 1 + (n-1) div N
\* launches, so none after the last visit.
C8_RestartBeforeNextVisit ==
  /\ pc \in VisitPcs =>
       /\ launches = 1 + processed \div RESTART_EVERY
       /\ closes = processed \div RESTART_EVERY
       /\ served = processed % RESTART_EVERY
  /\ pc = "done" =>
       launches = 1 + (IF attempted = <<>> THEN 0
                       ELSE (Len(attempted) - 1) \div RESTART_EVERY)

\* The visit after the N-th: one close, one replacement launched, nothing served yet.
C8_Witness ==
  /\ pc = "visit"
  /\ processed = RESTART_EVERY
  /\ launches = 2
  /\ closes = 1
  /\ served = 0
  /\ ctx = "open"

\* C9: when the outcome of a visit has been recorded, its domain is the new
\* last line of visited.txt; if HTTPS failed and HTTP succeeded the final URL
\* is http://<domain> and failed.txt has no new line; if both failed
\* failed.txt has exactly one new line, for this domain, whose reason is the
\* error of the HTTP attempt.
C9_Fallback ==
  pc = "count" =>
    LET d == domains[idx]
    IN /\ e_https # NoErr =>
            /\ Len(visitedLog) = mark[1] + 1
            /\ visitedLog[Len(visitedLog)] = d
       /\ (e_https # NoErr /\ e_http = NoErr) =>
            /\ loaded
            /\ final_url = Url("http", d)
            /\ Len(failedLog) = mark[2]
       /\ (e_https # NoErr /\ e_http # NoErr) =>
            /\ Len(failedLog) = mark[2] + 1
            /\ failedLog[Len(failedLog)].domain = d
            /\ failedLog[Len(failedLog)].reason = e_http

\* Both attempts failed, with different errors, and the outcome is recorded.
C9_Witness ==
  /\ pc = "count"
  /\ e_https # NoErr
  /\ e_http # NoErr
  /\ e_https # e_http
  /\ failedLog[Len(failedLog)].reason = e_http

\* C10: a run whose startup succeeded and that no external interruption
\* stopped ends only when every site-list domain is in visited.txt.
C10_NoFailureEndsLoop ==
  (pc \in {"done", "aborted"} /\ exc # "KeyboardInterrupt") =>
    Range(SiteDomains) \subseteq Range(visitedLog)

\* C11: when the outcome of a visit has been recorded, visited.txt has one
\* new line, the visit's domain, whatever the outcome; failed.txt has one new
\* line, for that domain, if the visit did not load or an error was recorded,
\* and no new line if it loaded without error.
C11_FailureLineIff ==
  pc = "count" =>
    LET d == domains[idx]
    IN /\ Len(visitedLog) = mark[1] + 1
       /\ visitedLog[Len(visitedLog)] = d
       /\ (~loaded \/ err # NoErr) =>
            /\ Len(failedLog) = mark[2] + 1
            /\ failedLog[Len(failedLog)].domain = d
       /\ (loaded /\ err = NoErr) => Len(failedLog) = mark[2]

\* A visit that failed has been recorded after a visit of the same run that
\* loaded and left no line in failed.txt.
C11_Witness ==
  /\ pc = "count"
  /\ ~loaded
  /\ err # NoErr
  /\ Len(failedLog) = mark[2] + 1
  /\ Len(attempted) >= 2
  /\ \E i \in 1..(Len(attempted) - 1) :
       \A j \in 1..Len(failedLog) : failedLog[j].domain # attempted[i]

\* C12 as stated: at most one page is open at any time.
C12_AtMostOnePageOpen == pagesOpen <= 1

\* C12 amended: a visit calls new_page at most once; whenever the outcome is
\* being recorded, and whenever the loop is between two visits, the page of
\* the visit, if one was opened, has had its close attempted; a page the
\* program has opened and not yet tried to close exists only inside a visit.
C12_PageClosedOnEveryPath ==
  /\ Len(opens) <= Len(attempted)
  /\ \A i, j \in 1..Len(opens) : opens[i] = opens[j] => i = j
  /\ pc \in {"record", "record_failed", "count", "loop", "restart_close",
             "restart_launch", "visit"} => page # "open"
  /\ pc \in {"record", "record_failed", "count"} =>
       (page = "closed" <=> (loaded \/ e_https # NoErr))
  /\ page = "open" => pc \in {"https", "http", "dwell", "rename", "renaming",
                              "final_close"}

\* Both navigations of a visit failed, its page was closed and the outcome is
\* recorded, after an earlier visit of the run that also opened a page.
C12_Witness ==
  /\ pc = "count"
  /\ page = "closed"
  /\ ~loaded
  /\ e_http # NoErr
  /\ pagesOpen = 0
  /\ Len(opens) >= 2

\* C13: the step by which a run that launched a session ends (after the last
\* domain, on an interruption, or on an exception that left the loop) makes
\* one more close attempt on the context ctx refers to, and a context that
\* was open is closed by it unless the close itself fails.
C13_CloseBeforeExit ==
  [][ (pc # pc' /\ pc' \in {"done", "aborted"} /\ ctx # "none") =>
        /\ closes' = closes + 1
        /\ sessions' \in {sessions, sessions - 1}
        /\ (ctx' = "closed" /\ ctx = "open") => sessions' = sessions - 1 ]_vars

\* A run that the failed replacement launch ended: the session was closed at
\* the restart and the close was attempted again on the way out.
C13_Witness ==
  /\ pc = "aborted"
  /\ exc = "LaunchError"
  /\ launches = 2
  /\ closes = 2
  /\ ctx = "closed"

\* C14: a run that a missing extension directory, executable or site list
\* ended has launched no session, opened no page, begun no visit and left
\* visited.txt as it found it, and the step that ends it appends nothing to
\* visited.txt or failed.txt.
C14_FatalBeforeAnyVisit ==
  /\ [](( pc = "fatal" /\ exc = "FileNotFoundError") =>
          /\ launches = 0
          /\ sessions = 0
          /\ pagesOpen = 0
          /\ opens = <<>>
          /\ attempted = <<>>
          /\ visitedLog = log0)
  /\ [][ (pc' = "fatal" /\ exc' = "FileNotFoundError") => UNCHANGED ledger ]_vars

\* A second run, over ledgers that are not empty, ended by a missing path.
C14_Witness ==
  /\ pc = "fatal"
  /\ exc = "FileNotFoundError"
  /\ runs = 2
  /\ visitedLog # <<>>
  /\ failedLog # <<>>
  /\ launches = 0

\* C15: the step in which a rename raises leaves the directory as it is,
\* leaves the counter alone and moves on to the next entry without ending
\* the call; the value a call returns is the number of its successful
\* renames; and after a later complete whole-directory pass in which no
\* rename failed, a file whose rename had failed has a canonical name.
C15_RenameFailureRetried ==
  /\ []((~scanning /\ ~raised /\ result # NoResult) => result = Len(passLog))
  /\ []((cleanRun >= 1 /\ ~scanning) =>
          \A f \in dir : f.id \in failedIds => f.name.kind = "canon")
  /\ [][ failedIds' # failedIds =>
           /\ dir' = dir
           /\ renamed' = renamed
           /\ fi' = fi + 1
           /\ scanning'
           /\ ~raised' ]_vars

\* The rename of a file failed in one pass while another file of that pass
\* was renamed; a later pass has renamed the file.
C15_Witness ==
  /\ cleanRun >= 1
  /\ ~scanning
  /\ passNo = 2
  /\ result >= 1
  /\ Cardinality(dir) = 2
  /\ \E f \in dir : f.id \in failedIds /\ f.name.kind = "canon"
  /\ \E g \in dir : g.id \notin failedIds /\ g.name.kind = "canon"

\* C16: a whole-directory pass during which no file arrived and no rename
\* failed returns normally, leaves every file that is not an artifact under
\* the name it had, and leaves every artifact under a canonical name, whatever
\* the other files of the directory contain.
C16_OtherShapesIgnored ==
  (passNo >= 1 /\ ~scanning /\ ~dirty /\ since = NoSince) =>
    /\ ~raised
    /\ \A f \in dir : IsArtifact(f) => f.name.kind = "canon"
    /\ \A f \in dir : ~IsArtifact(f) => f.name = OpaqueName(f.id)

\* C17 as stated: when a run finishes, every artifact in Downloads whose
\* rename never failed has a canonical name.
C17_FinalPassCatchesAll ==
  (pc = "done" /\ failedIds = {}) =>
    \A f \in dir : IsArtifact(f) => f.name.kind = "canon"

\* C17 amended: with incremental renaming set, the correlate passes of a run
\* are the per-visit ones: a run that finishes has made as many calls as
\* visits, every call begins in the finally clause of a visit and is scoped
\* to that visit's start minus the slack, and no file changes its name
\* outside such a call.
C17_OnlyScopedPasses ==
  /\ [](pc = "done" => passNo = Len(attempted))
  /\ [][ (~scanning /\ scanning') =>
           (pc = "rename" /\ since' = start_epoch - RENAME_SLACK_MS) ]_vars
  /\ [][ (\E f \in dir : f \notin dir') => pc = "renaming" ]_vars

\* A finished run that left an artifact, written after the pass of the visit
\* that produced it, under its opaque name.
C17_Witness ==
  /\ pc = "done"
  /\ passNo >= 1
  /\ failedIds = {}
  /\ \E f \in dir : IsArtifact(f) /\ f.name.kind = "opaque"

\* The first line of the site list that normalizes to domain d.
FirstLineOf(d) ==
  CHOOSE i \in 1..Len(sites) :
    extract_domain(sites[i]) = d /\ \A k \in 1..(i - 1) : extract_domain(sites[k]) # d

\* C18: load_sites raises for no site list, and what it returns is made of
\* the domains its lines normalize to, each matching DOMAIN_RE, each once, in
\* the order of their first lines.
C18_LoadSitesTotal ==
  /\ pc # "load_failed"
  /\ pc = "loaded" =>
       /\ \A i \in 1..Len(domains) : DomainReMatch(domains[i])
       /\ \A i, j \in 1..Len(domains) : domains[i] = domains[j] => i = j
       /\ Range(domains) = {extract_domain(sites[i]) : i \in 1..Len(sites)} \ {NoDomain}
       /\ \A i, j \in 1..Len(domains) :
            i < j => FirstLineOf(domains[i]) < FirstLineOf(domains[j])

\* C19: after load_sites, a line of one of the five accepted shapes around a
\* lowercase domain d has contributed d, whether the first label of d is made
\* of letters or of digits.
C19_ShapesNormalize ==
  pc = "loaded" =>
    \A i \in 1..Len(sites) : \A d \in {DomX, DomY, Dom360} :
      sites[i] \in {Bare(d), RankCsv(d), RankSpace(d), RankDotSpace(d), HttpsUrl(d)}
        => Labels(d) \in Range(domains)

\* C20: visited.txt grows only by the statement after the finally clause of a
\* visit, by the domain of that visit, when no exception is in flight, the
\* outcome is known and the page is no longer held open; while a visit has
\* not reached that statement its domain is not in visited.txt, and a killed
\* process writes nothing, so a crash before the append leaves the domain
\* out; every earlier visit of the run is in visited.txt when the next one
\* starts; and a run that completes has visited every site-list domain that
\* was not in visited.txt when it started.
C20_AppendAfterOutcome ==
  /\ [][ visitedLog' # visitedLog =>
           /\ pc = "record"
           /\ exc = "none"
           /\ page # "open"
           /\ (loaded \/ err # NoErr)
           /\ attempted # <<>>
           /\ attempted[Len(attempted)] = domains[idx]
           /\ visitedLog' = Append(visitedLog, domains[idx]) ]_vars
  /\ [][ pc' = "killed" => UNCHANGED ledger ]_vars
  /\ [](pc \in {"new_page", "https", "http", "dwell", "rename", "renaming", "record"}
          => domains[idx] \notin Range(visitedLog))
  /\ [](pc = "visit" => Range(attempted) \subseteq Range(visitedLog))
  /\ [](pc = "done" => (Range(SiteDomains) \ Range(log0)) \subseteq Range(attempted))

\* A second run visits the first domain again: the first run got through the
\* dwell of a visit (the clock shows it) and ended before the append.
C20_Witness ==
  /\ runs = 2
  /\ pc = "new_page"
  /\ attempted = <<HostX>>
  /\ visitedLog = <<>>
  /\ clock >= WAIT_AFTER_NAV_MS

\* C21 as stated: while the correlate pass of a visit runs, the domain of the
\* visit is already in visited.txt.
C21_RecordBeforePass ==
  pc = "renaming" => domains[idx] \in Range(visitedLog)

\* C21 amended: the correlate pass of a visit begins while its domain is not
\* yet in visited.txt; the visited line is appended when that pass has
\* returned; the failed line, if any, follows the visited line of the same
\* domain; the counter is incremented, together with the cooldown, when the
\* domain is in visited.txt.
C21_PassBeforeRecord ==
  /\ [][ (~scanning /\ scanning') =>
           /\ pc = "rename"
           /\ passNo' = Len(attempted)
           /\ domains[idx] \notin Range(visitedLog) ]_vars
  /\ [][ visitedLog' # visitedLog =>
           /\ ~scanning
           /\ passNo = Len(attempted)
           /\ failedLog' = failedLog
           /\ processed' = processed ]_vars
  /\ [][ failedLog' # failedLog =>
           /\ visitedLog # <<>>
           /\ visitedLog[Len(visitedLog)] = domains[idx]
           /\ failedLog'[Len(failedLog')].domain = domains[idx]
           /\ processed' = processed ]_vars
  /\ [][ pc = "count" =>
           /\ domains[idx] \in Range(visitedLog)
           /\ (pc' = "loop" => processed' = processed + 1 /\ clock' > clock) ]_vars

\* The outcome of a failed visit is being recorded: its pass has returned,
\* its visited line is written, its failed line is next.
C21_Witness ==
  /\ pc = "record_failed"
  /\ ~scanning
  /\ passNo = Len(attempted)
  /\ passNo >= 2
  /\ visitedLog[Len(visitedLog)] = domains[idx]

\* C22: the HTTPS attempt is the first navigation of a visit and the HTTP
\* attempt is made only after it failed; nothing is attempted after the HTTP
\* attempt; when the visit has ended it has either loaded, over HTTPS with no
\* failed attempt or over HTTP after the failed HTTPS attempt, with no error
\* kept, or it has not loaded and an error is kept; the time spent in the
\* visit is one dwell when it loaded and none when it did not.
C22_TwoAttemptsOneDwell ==
  /\ [](pc = "https" => (~loaded /\ e_https = NoErr /\ e_http = NoErr))
  /\ [](pc = "http" => (~loaded /\ e_https # NoErr /\ e_http = NoErr))
  /\ [][ (pc = "http" /\ pc' # pc) => pc' \in {"dwell", "rename", "killed"} ]_vars
  /\ [](pc \in {"record", "record_failed", "count"} =>
          /\ e_http # NoErr => e_https # NoErr
          /\ loaded =>
               /\ err = NoErr
               /\ e_http = NoErr
               /\ final_url = Url(IF e_https = NoErr THEN "https" ELSE "http", domains[idx])
               /\ \E j \in JitterDwellMs : clock - start_epoch = WAIT_AFTER_NAV_MS + j
          /\ ~loaded =>
               /\ err # NoErr
               /\ final_url = NoUrl
               /\ clock = start_epoch)

\* A visit that loaded over HTTP after the HTTPS attempt failed, and dwelt.
C22_Witness ==
  /\ pc = "record"
  /\ loaded
  /\ e_https # NoErr
  /\ final_url = Url("http", domains[idx])
  /\ clock > start_epoch

C24_NoLaunchForEmptyWorkSet ==
  (Running /\ WorkList = <<>>) => launches = 0

\* C24: a run that has passed its startup checks has launched a browser
\* session before the loop, whatever its work set; a run whose work set is
\* empty launches exactly one session, opens no page in it and visits nothing.
C24_LaunchBeforeLoop ==
  /\ (Running \/ pc = "done") => launches >= 1
  /\ ((Running \/ pc = "done") /\ WorkList = <<>>) =>
        /\ launches = 1
        /\ attempted = <<>>
        /\ opens = <<>>

\* A second run over a completed ledger: it ends having launched a session
\* and visited nothing.
C24_Witness ==
  /\ pc = "done"
  /\ runs = 2
  /\ SiteDomains # <<>>
  /\ WorkList = <<>>
  /\ launches = 1
  /\ closes = 1

\* C25: when the first run found both logs empty, every domain with a line in
\* failed.txt has a line in visited.txt, in every state, a killed process
\* included; and a line is appended to failed.txt only for a domain whose
\* visited.txt line is already written.
C25_FailedImpliesVisited ==
  /\ [](plan.fresh =>
          \A i \in 1..Len(failedLog) : failedLog[i].domain \in Range(visitedLog))
  /\ [][ failedLog' # failedLog =>
           /\ Len(failedLog') = Len(failedLog) + 1
           /\ failedLog'[Len(failedLog')].domain \in Range(visitedLog) ]_vars

\* The process was killed after a failed visit had been recorded in both logs.
C25_Witness ==
  /\ plan.fresh
  /\ pc = "killed"
  /\ failedLog # <<>>
  /\ \A i \in 1..Len(failedLog) : failedLog[i].domain \in Range(visitedLog)

\* C26: over interrupted, killed and completed runs on the same site list
\* that started from empty logs, visited.txt never holds a domain twice.
C26_VisitedLogNoDuplicates ==
  plan.fresh =>
    \A i, j \in 1..Len(visitedLog) : visitedLog[i] = visitedLog[j] => i = j

\* A second run, after a first one that was cut short, has completed the
\* visited log.
C26_Witness ==
  /\ plan.fresh
  /\ runs = 2
  /\ pc = "done"
  /\ attempted # <<>>
  /\ Len(visitedLog) = Len(SiteDomains)
  /\ Len(log0) >= 1

\* C27: the active session has never served more than N visits; a
\* replacement is launched only when the session before it has served exactly
\* N visits; passing over a domain that is in the visited set changes neither
\* the processed count, nor the count of the session, nor the launches, and
\* does not lead to the restart.
C27_SessionServesAtMostN ==
  /\ [](served <= RESTART_EVERY)
  /\ [](pc \in {"restart_close", "restart_launch"} => served = RESTART_EVERY)
  /\ [][ (launches >= 1 /\ launches' > launches) => served = RESTART_EVERY ]_vars
  /\ [][ (pc = "loop" /\ idx <= Len(domains) /\ domains[idx] \in visited /\ pc' # "killed") =>
           /\ pc' \in {"loop", "final_close"}
           /\ processed' = processed
           /\ served' = served
           /\ launches' = launches ]_vars

\* The old session has served N visits and been closed; its replacement is
\* about to be launched.
C27_Witness ==
  /\ pc = "restart_launch"
  /\ served = RESTART_EVERY
  /\ processed = RESTART_EVERY
  /\ launches = 1
  /\ closes = 1

\* C28 as stated: the engine never has more than one browser context alive.
C28_AtMostOneSessionLive == sessions <= 1

\* C28: the replacement is launched only after a close of the old context
\* has been attempted, with no page of the program left unclosed; the
\* contexts alive are at most those launched, and more than one is alive only
\* after a close attempt (a close that raised is ignored and may leave the old
\* context alive); a page is opened only in the context the program holds,
\* which is open then.
C28_CloseAttemptBeforeLaunch ==
  /\ [](pc = "restart_launch" => (closes = launches /\ page # "open"))
  /\ [][ (launches >= 1 /\ launches' > launches) => closes = launches ]_vars
  /\ [](sessions <= launches /\ (sessions > 1 => closes >= sessions - 1))
  /\ [](pc = "new_page" => ctx = "open")
  /\ [][ pagesOpen' > pagesOpen => (pc = "new_page" /\ ctx = "open" /\ ctx' = "open") ]_vars
  /\ [][ (pc = "restart_close" /\ ctx' = "closed") => sessions' = sessions - 1 ]_vars

\* A page is open in the replacement context, the only context alive.
C28_Witness ==
  /\ pc = "https"
  /\ page = "open"
  /\ launches = 2
  /\ closes = 1
  /\ sessions = 1
  /\ ctx = "open"

\* C29: on the same directory and the same entry the loop body of
\* rename_by_page_field.main and the loop body of postprocess_rename decide
\* alike (both pass the entry over, both rename it to the same name, or both
\* raise), so that the two runs make the same renames in the same order.
C29_SameDecision ==
  (pc = "script" /\ scanning /\ fi <= Len(files)) =>
    LET f == FileAt(dir, files[fi])
    IN /\ ScriptDecide(dir, f).act = Decide(dir, f).act
       /\ ScriptDecide(dir, f).to = Decide(dir, f).to

====
